---- MODULE Spec2Model ----
(***************************************************************************)
(* Risk rules, analytics aggregation, the report render, the call list     *)
(* and the call routes of the EmpathZ crisis-line demo.                    *)
(*                                                                         *)
(* SpecRisk runs the risk rules on one risk mapping, SpecAnalytics the     *)
(* aggregations on a corpus, SpecReport one render of a report statement   *)
(* by statement, SpecCalls the call routes and the Call Records tab on a   *)
(* loaded corpus.                                                          *)
(*                                                                         *)
(* A Python dict entry risk_obj[d] is the record                           *)
(*   [present |-> d in risk_obj, has |-> "score" in risk_obj[d],           *)
(*    score |-> risk_obj[d]["score"]]                                      *)
(* kept normalised (score = 0 when the key is missing).                    *)
(* A function that can raise returns [ok |-> FALSE, err |-> ...] for the   *)
(* exception and [ok |-> TRUE, val |-> ...] for its return value.          *)
(***************************************************************************)
EXTENDS Integers, Sequences, FiniteSets, TLC

VARIABLES risk, calls, op, result, pdf_call, pc, story, out, request, session

\* the state of one report render: its input, its position, the content
\* built so far and the document written
render == <<pdf_call, pc, story, out>>

vars == <<risk, calls, op, result, pdf_call, pc, story, out, request, session>>

\* ------------------------------------------------------------------ bounds
NegDepth == 1
MaxScoreIn == 6
MaxCalls == 2
MaxRT == 2

\* ------------------------------------------------------- the risk mapping
risk_dimensions == <<"suicide", "homicide", "self_harm", "harm_others">>

Dims == {risk_dimensions[i] : i \in 1..Len(risk_dimensions)}

ScoreValues == (0 - NegDepth)..MaxScoreIn

AbsentDim == [present |-> FALSE, has |-> FALSE, score |-> 0]

NoScoreDim == [present |-> TRUE, has |-> FALSE, score |-> 0]

ScoredDim(s) == [present |-> TRUE, has |-> TRUE, score |-> s]

DimEntries == {AbsentDim, NoScoreDim} \cup {ScoredDim(s) : s \in ScoreValues}

RiskObjs == [Dims -> DimEntries]

EmptyRisk == [d \in Dims |-> AbsentDim]

\* dict.get("score", 0) on the entry of a dimension
GetScore(entry) == IF entry.has THEN entry.score ELSE 0

PyMax(a, b) == IF b > a THEN b ELSE a

\* str(n) of an integer of one digit
PyStr(n) ==
    LET digit == <<"0", "1", "2", "3", "4", "5", "6", "7", "8", "9">> IN
    IF n < 0 THEN "-" \o digit[1 - n] ELSE digit[n + 1]

Ok(v) == [ok |-> TRUE, val |-> v]

Raise(e) == [ok |-> FALSE, err |-> e]

\* ------------------------------------------------- src/logic/risk_rules.py
RECURSIVE RedAlertFrom(_, _)
RedAlertFrom(risk_obj, i) ==
    IF i > Len(risk_dimensions) THEN FALSE
    ELSE LET dimension == risk_dimensions[i] IN
         IF risk_obj[dimension].present /\ GetScore(risk_obj[dimension]) >= 4
         THEN TRUE
         ELSE RedAlertFrom(risk_obj, i + 1)

\* mutant: the threshold is taken as "above 4"
has_red_alert_above4(risk_obj) ==
    \E d \in Dims : risk_obj[d].present /\ GetScore(risk_obj[d]) > 4

has_red_alert(risk_obj) == RedAlertFrom(risk_obj, 1)

RECURSIVE HighestFrom(_, _, _)
HighestFrom(risk_obj, i, max_score) ==
    IF i > Len(risk_dimensions) THEN max_score
    ELSE LET dimension == risk_dimensions[i] IN
         IF risk_obj[dimension].present
         THEN HighestFrom(risk_obj, i + 1,
                          PyMax(max_score, GetScore(risk_obj[dimension])))
         ELSE HighestFrom(risk_obj, i + 1, max_score)

\* mutant: the running maximum is overwritten by each dimension's score
RECURSIVE LastScoreFrom(_, _, _)
LastScoreFrom(risk_obj, i, max_score) ==
    IF i > Len(risk_dimensions) THEN max_score
    ELSE IF risk_obj[risk_dimensions[i]].present
    THEN LastScoreFrom(risk_obj, i + 1, GetScore(risk_obj[risk_dimensions[i]]))
    ELSE LastScoreFrom(risk_obj, i + 1, max_score)

get_highest_risk_score_last(risk_obj) == LastScoreFrom(risk_obj, 1, 0)

get_highest_risk_score(risk_obj) == HighestFrom(risk_obj, 1, 0)

get_risk_level_description(score) ==
    IF score >= 4 THEN "HIGH RISK"
    ELSE IF score >= 2 THEN "MODERATE RISK"
    ELSE IF score >= 1 THEN "LOW RISK"
    ELSE "NO INDICATORS"

\* One diagnostic "Invalid <dimension> risk score: <score>. Must be integer
\* 0-5."; has = FALSE stands for the score None of a missing key.
RECURSIVE ValidateFrom(_, _, _)
ValidateFrom(risk_obj, i, errors) ==
    IF i > Len(risk_dimensions) THEN errors
    ELSE LET dimension == risk_dimensions[i]
             entry == risk_obj[dimension]
         IN  IF entry.present
                /\ (~entry.has \/ entry.score < 0 \/ entry.score > 5)
             THEN ValidateFrom(risk_obj, i + 1,
                      Append(errors, [dimension |-> dimension,
                                      has |-> entry.has,
                                      score |-> entry.score]))
             ELSE ValidateFrom(risk_obj, i + 1, errors)

\* mutant: the upper bound is not checked
RECURSIVE ValidateLowerFrom(_, _, _)
ValidateLowerFrom(risk_obj, i, errors) ==
    IF i > Len(risk_dimensions) THEN errors
    ELSE IF risk_obj[risk_dimensions[i]].present
            /\ (~risk_obj[risk_dimensions[i]].has
                \/ risk_obj[risk_dimensions[i]].score < 0)
    THEN ValidateLowerFrom(risk_obj, i + 1,
             Append(errors, [dimension |-> risk_dimensions[i],
                             has |-> risk_obj[risk_dimensions[i]].has,
                             score |-> risk_obj[risk_dimensions[i]].score]))
    ELSE ValidateLowerFrom(risk_obj, i + 1, errors)

validate_risk_scores_lower(risk_obj) == ValidateLowerFrom(risk_obj, 1, <<>>)

validate_risk_scores(risk_obj) == ValidateFrom(risk_obj, 1, <<>>)

Rec(tier, text) == [tier |-> tier, text |-> text]

\* mutant: the follow-up tier starts at score 3
get_escalation_recommendations_from3(risk_obj) ==
    LET immediate ==
            IF has_red_alert(risk_obj)
            THEN <<Rec("IMMEDIATE", "Escalate to supervisor"),
                   Rec("IMMEDIATE", "Activate crisis response protocol")>>
            ELSE <<>>
        highest_score == get_highest_risk_score(risk_obj)
    IN  IF highest_score >= 3
        THEN immediate \o
             <<Rec("HIGH PRIORITY", "Schedule immediate follow-up"),
               Rec("HIGH PRIORITY", "Consider emergency services contact")>>
        ELSE IF highest_score >= 2
        THEN immediate \o
             <<Rec("MODERATE", "Schedule follow-up within 24 hours"),
               Rec("MODERATE", "Connect with mental health resources")>>
        ELSE IF highest_score >= 1
        THEN immediate \o
             <<Rec("LOW", "Provide ongoing support resources"),
               Rec("LOW", "Schedule routine follow-up")>>
        ELSE immediate

get_escalation_recommendations(risk_obj) ==
    LET immediate ==
            IF has_red_alert(risk_obj)
            THEN <<Rec("IMMEDIATE", "Escalate to supervisor"),
                   Rec("IMMEDIATE", "Activate crisis response protocol")>>
            ELSE <<>>
        highest_score == get_highest_risk_score(risk_obj)
    IN  IF highest_score >= 4
        THEN immediate \o
             <<Rec("HIGH PRIORITY", "Schedule immediate follow-up"),
               Rec("HIGH PRIORITY", "Consider emergency services contact")>>
        ELSE IF highest_score >= 2
        THEN immediate \o
             <<Rec("MODERATE", "Schedule follow-up within 24 hours"),
               Rec("MODERATE", "Connect with mental health resources")>>
        ELSE IF highest_score >= 1
        THEN immediate \o
             <<Rec("LOW", "Provide ongoing support resources"),
               Rec("LOW", "Schedule routine follow-up")>>
        ELSE immediate

\* ----------------------------------------- src/backend/styles/theme.py
\* mutant: the comparisons are strict
get_risk_level_strict(score) ==
    IF score < 1 THEN "LOW"
    ELSE IF score < 3 THEN "MOD"
    ELSE "HIGH"

get_risk_level(score) ==
    IF score <= 1 THEN "LOW"
    ELSE IF score <= 3 THEN "MOD"
    ELSE "HIGH"

get_risk_badge_class(score) ==
    IF score <= 1 THEN "risk-badge-low"
    ELSE IF score <= 3 THEN "risk-badge-mod"
    ELSE "risk-badge-high"

\* ------------------------------------- src/backend/logic/pdf_report.py
\* The background colours of the five cells of the bar, left to right.
draw_risk_bar_pdf(score) ==
    [i \in 0..4 |->
        IF i < score
        THEN IF score >= 4 THEN "#dc2626"
             ELSE IF score >= 2 THEN "#f59e0b"
             ELSE "#10b981"
        ELSE "#e5e7eb"]

NoCells == [i \in 0..4 |-> ""]

\* One flowable of the story: the block of the report it belongs to, what it
\* is, the key (section or dimension) it renders, its text, for a risk title
\* and bar the score and the colours of the five cells, and for a table its
\* rows <<label, value>>.
Item(block, kind, key, text) ==
    [block |-> block, kind |-> kind, key |-> key, text |-> text,
     score |-> 0, cells |-> NoCells, rows |-> <<>>]

Spacer(block) == Item(block, "spacer", "", "")

\* any(risk[dim].get("score", 0) >= 4 for dim in [...]): the subscript
\* raises on a missing dimension unless an earlier one has ended the scan
RECURSIVE HasRedFrom(_, _)
HasRedFrom(r, i) ==
    IF i > Len(risk_dimensions) THEN Ok(FALSE)
    ELSE IF ~r[risk_dimensions[i]].present THEN Raise("KeyError")
    ELSE IF GetScore(r[risk_dimensions[i]]) >= 4 THEN Ok(TRUE)
    ELSE HasRedFrom(r, i + 1)

\* The entries of the model carry no explanation and no reason_quotes, so
\* the story holds the title, the bar and the spacer of each dimension.
RECURSIVE RiskDimensionsFrom(_, _)
RiskDimensionsFrom(r, i) ==
    IF i > Len(risk_dimensions) THEN <<>>
    ELSE LET dim_key == risk_dimensions[i]
             score == GetScore(r[dim_key])
         IN  IF r[dim_key].present
             THEN << [Item("risk", "risk_title", dim_key, "") EXCEPT
                         !.score = score],
                     [Item("risk", "risk_bar", dim_key, "") EXCEPT
                         !.score = score,
                         !.cells = draw_risk_bar_pdf(score)],
                     Spacer("risk") >>
                  \o RiskDimensionsFrom(r, i + 1)
             ELSE RiskDimensionsFrom(r, i + 1)

draw_risk_section(r) ==
    LET has_red == HasRedFrom(r, 1) IN
    IF ~has_red.ok THEN has_red
    ELSE Ok(<<Item("risk", "heading", "", "Risk Assessment")>>
            \o (IF has_red.val
                THEN <<Item("risk", "alert", "",
                            "HIGH RISK - ESCALATE TO SUPERVISOR")>>
                ELSE <<>>)
            \o RiskDimensionsFrom(r, 1))

\* ---- the call record handed to the report
\* dict.get(key) of an optional string: has = FALSE when the key is missing
Missing == [has |-> FALSE, val |-> ""]

Given(v) == [has |-> TRUE, val |-> v]

\* An ISO timestamp: ok = FALSE when datetime.fromisoformat rejects the
\* string, else the day of January 2025 and the second of that day.
NoStamp == [has |-> FALSE, ok |-> FALSE, day |-> 0, sec |-> 0]

BadStamp == [has |-> TRUE, ok |-> FALSE, day |-> 0, sec |-> 0]

Stamp(day, sec) == [has |-> TRUE, ok |-> TRUE, day |-> day, sec |-> sec]

NoDuration == [has |-> FALSE, val |-> 0]

Duration(n) == [has |-> TRUE, val |-> n]

NoProfile == [present |-> FALSE, age_range |-> Missing, gender |-> Missing]

Profile(age_range, gender) ==
    [present |-> TRUE, age_range |-> age_range, gender |-> gender]

NoCallAnalytics == [present |-> FALSE, handled_by |-> Missing]

CallAnalytics(handled_by) == [present |-> TRUE, handled_by |-> handled_by]

section_order ==
    <<"caller_profile", "presenting_problem", "context_timeline",
      "risk_factors", "protective_factors", "interventions", "outcome",
      "safety_plan">>

SectionKeys == {section_order[i] : i \in 1..Len(section_order)}

section_titles ==
    [k \in SectionKeys |->
        CASE k = "caller_profile" -> "Caller Profile"
          [] k = "presenting_problem" -> "Presenting Problem"
          [] k = "context_timeline" -> "Context & Timeline"
          [] k = "risk_factors" -> "Risk Factors"
          [] k = "protective_factors" -> "Protective Factors"
          [] k = "interventions" -> "Interventions Provided"
          [] k = "outcome" -> "Outcome"
          [] k = "safety_plan" -> "Safety Plan & Referrals"]

\* call["summary"]: present = FALSE when the call has no summary,
\* has_sections = FALSE when the summary has no "sections"
NoSections == [k \in SectionKeys |-> Missing]

NoSummary == [present |-> FALSE, has_sections |-> FALSE, sections |-> NoSections]

SummaryWithoutSections ==
    [present |-> TRUE, has_sections |-> FALSE, sections |-> NoSections]

Summary(sections) ==
    [present |-> TRUE, has_sections |-> TRUE, sections |-> sections]

\* ---- conversions
Digit == <<"0", "1", "2", "3", "4", "5", "6", "7", "8", "9">>

\* "%02d" of 0..99
TwoDigits(n) == Digit[(n \div 10) + 1] \o Digit[(n % 10) + 1]

\* strftime("%I:%M %p"): the 12-hour clock, the seconds dropped
Strftime12(t) ==
    LET hour == (t.sec \div 3600) % 24
        minute == (t.sec \div 60) % 60
    IN  TwoDigits(IF hour % 12 = 0 THEN 12 ELSE hour % 12) \o ":"
        \o TwoDigits(minute) \o (IF hour < 12 THEN " AM" ELSE " PM")

\* strftime("%B %d, %Y")
StrftimeDate(t) == "January " \o TwoDigits(t.day) \o ", 2025"

\* str.title() on the strings of the model
PyTitle(s) ==
    CASE s = "phone" -> "Phone"
      [] s = "chat" -> "Chat"
      [] s = "female" -> "Female"
      [] s = "non-binary" -> "Non-Binary"
      [] s = "Not specified" -> "Not Specified"
      [] OTHER -> s

\* a timestamp datetime.fromisoformat accepts
Parsable(t) == t.has /\ t.ok

\* datetime.fromisoformat(call.get(key, ""))
FromIsoFormat(t) == IF t.has /\ t.ok THEN Ok(t) ELSE Raise("ValueError")

\* dict.get(key, default) of an optional string
GetOr(o, default) == IF o.has THEN o.val ELSE default

\* ---- the section builders
draw_header(call) ==
    LET call_id == GetOr(call.call_id, "Unknown")
        call_date == FromIsoFormat(call.started_at)
    IN  IF ~call_date.ok THEN call_date
        ELSE Ok(<<Item("header", "org", "", "EmpathZ for Crisis Hotline"),
                  Item("header", "title", "", "AI-Generated Case Report"),
                  Item("header", "info", "",
                       "Call ID: " \o call_id \o " | Date: "
                       \o StrftimeDate(call_date.val))>>)

\* mutant: the end time is computed from the start time and the duration
EndedAtDerived(call) ==
    IF ~(call.started_at.has /\ call.started_at.ok) THEN Raise("ValueError")
    ELSE Ok(Stamp(call.started_at.day,
                  call.started_at.sec
                  + (IF call.duration_sec.has THEN call.duration_sec.val
                     ELSE 0)))

\* datetime.fromisoformat(call.get("ended_at", ""))
EndedAt(call) == FromIsoFormat(call.ended_at)

\* mutant: the gender is title-cased whatever it is
GenderCellTitled(gender) == PyTitle(gender)

\* gender.title() if gender != "Not specified" else "Not specified"
GenderCell(gender) ==
    IF gender # "Not specified" THEN PyTitle(gender) ELSE "Not specified"

draw_call_info(call) ==
    LET started_at == FromIsoFormat(call.started_at)
        ended_at == EndedAt(call)
        duration == IF call.duration_sec.has THEN call.duration_sec.val ELSE 0
        duration_min == duration \div 60
        duration_sec == duration % 60
        age_range ==
            IF call.caller_profile.present
            THEN GetOr(call.caller_profile.age_range, "Not specified")
            ELSE "Not specified"
        gender ==
            IF call.caller_profile.present
            THEN GetOr(call.caller_profile.gender, "Not specified")
            ELSE "Not specified"
        handled_by ==
            IF call.analytics.present
            THEN GetOr(call.analytics.handled_by, "Unknown")
            ELSE "Unknown"
    IN  IF ~started_at.ok THEN started_at
        ELSE IF ~ended_at.ok THEN ended_at
        ELSE Ok(<<Item("call_info", "heading", "", "Call Information"),
                  [Item("call_info", "table", "", "") EXCEPT !.rows =
                     << <<"Call Duration:",
                          PyStr(duration_min) \o ":" \o TwoDigits(duration_sec)>>,
                        <<"Start Time:", Strftime12(started_at.val)>>,
                        <<"End Time:", Strftime12(ended_at.val)>>,
                        <<"Channel:", PyTitle(GetOr(call.channel, "Unknown"))>>,
                        <<"Age Range:", age_range>>,
                        <<"Gender:", GenderCell(gender)>>,
                        <<"Handled By:", handled_by>> >>]>>)

\* mutant: the sections are emitted from the last of the order to the first
RECURSIVE SectionsBackFrom(_, _)
SectionsBackFrom(sections, i) ==
    IF i < 1 THEN <<>>
    ELSE IF sections[section_order[i]].has /\ sections[section_order[i]].val # ""
    THEN <<Item("summary", "section_title", section_order[i],
                section_titles[section_order[i]]),
           Item("summary", "section_content", section_order[i],
                sections[section_order[i]].val)>>
         \o SectionsBackFrom(sections, i - 1)
    ELSE SectionsBackFrom(sections, i - 1)

SectionsReversed(sections, i) == SectionsBackFrom(sections, Len(section_order))

RECURSIVE SectionsFrom(_, _)
SectionsFrom(sections, i) ==
    IF i > Len(section_order) THEN <<>>
    ELSE LET section_key == section_order[i] IN
         IF sections[section_key].has /\ sections[section_key].val # ""
         THEN <<Item("summary", "section_title", section_key,
                     section_titles[section_key]),
                Item("summary", "section_content", section_key,
                     sections[section_key].val)>>
              \o SectionsFrom(sections, i + 1)
         ELSE SectionsFrom(sections, i + 1)

draw_summary_sections(summary) ==
    LET sections ==
            IF summary.has_sections THEN summary.sections ELSE NoSections
    IN  <<Item("summary", "heading", "", "Case Summary")>>
        \o SectionsFrom(sections, 1)

draw_footer ==
    <<Spacer("footer"),
      Item("footer", "disclaimer", "",
           "DISCLAIMER: This report was generated using AI technology for demonstration purposes. This is not real patient data and should not be used for clinical decision-making.")>>

\* ------------------------------------------------------ the call records
NoAnalytics == [present |-> FALSE, has |-> FALSE, rt |-> 0]

NoResponseTime == [present |-> TRUE, has |-> FALSE, rt |-> 0]

ResponseTime(t) == [present |-> TRUE, has |-> TRUE, rt |-> t]

AnalyticsEntries ==
    {NoAnalytics, NoResponseTime} \cup {ResponseTime(t) : t \in 0..MaxRT}

\* The risk mappings of the corpus: two of the four dimensions vary, so that
\* the highest score of a call takes every value of 0..MaxScoreIn.
CorpusRisks ==
    {r \in RiskObjs :
        /\ r["homicide"] = AbsentDim
        /\ r["self_harm"] = AbsentDim
        /\ r["suicide"] \in
               {AbsentDim} \cup {ScoredDim(s) : s \in {1, 3, 5, MaxScoreIn}}
        /\ r["harm_others"] \in {AbsentDim, ScoredDim(2), ScoredDim(4)}}

Call(has_risk, r, a) == [has_risk |-> has_risk, risk |-> r, analytics |-> a]

CallRecords ==
    {Call(TRUE, r, a) : r \in CorpusRisks, a \in AnalyticsEntries}
    \cup {Call(FALSE, EmptyRisk, a) : a \in AnalyticsEntries}

Corpora == UNION {[1..n -> CallRecords] : n \in 0..MaxCalls}

\* total_time / valid_calls, kept as the exact quotient
Quot(n, d) == [num |-> n, den |-> d]

\* ------------------------------------------------- src/logic/analytics.py
\* call.get("risk", {})
CallRisk(call) == IF call.has_risk THEN call.risk ELSE EmptyRisk

\* mutant: the dimension scores are added up
RECURSIVE SumRiskFrom(_, _, _)
SumRiskFrom(r, i, max_risk) ==
    IF i > Len(risk_dimensions) THEN max_risk
    ELSE IF r[risk_dimensions[i]].present
    THEN SumRiskFrom(r, i + 1, max_risk + GetScore(r[risk_dimensions[i]]))
    ELSE SumRiskFrom(r, i + 1, max_risk)

RECURSIVE MaxRiskFrom(_, _, _)
MaxRiskFrom(r, i, max_risk) ==
    IF i > Len(risk_dimensions) THEN max_risk
    ELSE LET dimension == risk_dimensions[i] IN
         IF r[dimension].present
         THEN MaxRiskFrom(r, i + 1, PyMax(max_risk, GetScore(r[dimension])))
         ELSE MaxRiskFrom(r, i + 1, max_risk)

\* mutant: a call without any indicator is not counted
RECURSIVE DistributionSkipZero(_, _, _)
DistributionSkipZero(cs, i, distribution) ==
    IF i > Len(cs) THEN Ok(distribution)
    ELSE LET max_risk == MaxRiskFrom(CallRisk(cs[i]), 1, 0) IN
         IF max_risk = 0
         THEN DistributionSkipZero(cs, i + 1, distribution)
         ELSE IF max_risk \notin DOMAIN distribution
         THEN Raise("KeyError")
         ELSE DistributionSkipZero(cs, i + 1,
                  [distribution EXCEPT ![max_risk] = @ + 1])

RECURSIVE DistributionFrom(_, _, _)
DistributionFrom(cs, i, distribution) ==
    IF i > Len(cs) THEN Ok(distribution)
    ELSE LET max_risk == MaxRiskFrom(CallRisk(cs[i]), 1, 0) IN
         IF max_risk \notin DOMAIN distribution
         THEN Raise("KeyError")
         ELSE DistributionFrom(cs, i + 1,
                  [distribution EXCEPT ![max_risk] = @ + 1])

calculate_risk_distribution(cs) ==
    DistributionFrom(cs, 1, [i \in 0..5 |-> 0])

\* call.get("analytics", {}).get("response_time_sec", 0)
CallResponseTime(call) ==
    IF call.analytics.present /\ call.analytics.has
    THEN call.analytics.rt ELSE 0

\* mutant: the total is divided by the number of all calls
RECURSIVE ResponseTimeOverAll(_, _, _, _)
ResponseTimeOverAll(cs, i, total_time, valid_calls) ==
    IF i > Len(cs)
    THEN IF valid_calls > 0 THEN Quot(total_time, Len(cs)) ELSE Quot(0, 1)
    ELSE IF CallResponseTime(cs[i]) > 0
    THEN ResponseTimeOverAll(cs, i + 1, total_time + CallResponseTime(cs[i]),
                             valid_calls + 1)
    ELSE ResponseTimeOverAll(cs, i + 1, total_time, valid_calls)

RECURSIVE ResponseTimeFrom(_, _, _, _)
ResponseTimeFrom(cs, i, total_time, valid_calls) ==
    IF i > Len(cs)
    THEN IF valid_calls > 0 THEN Quot(total_time, valid_calls) ELSE Quot(0, 1)
    ELSE LET response_time == CallResponseTime(cs[i]) IN
         IF response_time > 0
         THEN ResponseTimeFrom(cs, i + 1, total_time + response_time,
                               valid_calls + 1)
         ELSE ResponseTimeFrom(cs, i + 1, total_time, valid_calls)

calculate_avg_response_time(cs) ==
    IF cs = <<>> THEN Quot(0, 1) ELSE ResponseTimeFrom(cs, 1, 0, 0)

\* mutant: the empty input is answered with an empty distribution
compute_analytics_no_buckets(visible_calls) ==
    IF visible_calls = <<>>
    THEN Ok([total_calls |-> 0,
             risk_distribution |-> [i \in {} |-> 0],
             avg_response_time |-> Quot(0, 1)])
    ELSE LET risk_distribution == calculate_risk_distribution(visible_calls)
             avg_response_time == calculate_avg_response_time(visible_calls)
         IN  IF ~risk_distribution.ok THEN risk_distribution
             ELSE Ok([total_calls |-> Len(visible_calls),
                      risk_distribution |-> risk_distribution.val,
                      avg_response_time |-> avg_response_time])

compute_analytics(visible_calls) ==
    IF visible_calls = <<>>
    THEN Ok([total_calls |-> 0,
             risk_distribution |-> [i \in 0..5 |-> 0],
             avg_response_time |-> Quot(0, 1)])
    ELSE LET risk_distribution == calculate_risk_distribution(visible_calls)
             avg_response_time == calculate_avg_response_time(visible_calls)
         IN  IF ~risk_distribution.ok THEN risk_distribution
             ELSE Ok([total_calls |-> Len(visible_calls),
                      risk_distribution |-> risk_distribution.val,
                      avg_response_time |-> avg_response_time])

get_risk_summary(cs) ==
    LET distribution == calculate_risk_distribution(cs) IN
    IF ~distribution.ok THEN distribution
    ELSE LET d == distribution.val IN
         Ok([high_risk |-> d[4] + d[5],
             moderate_risk |-> d[2] + d[3],
             low_risk |-> d[0] + d[1],
             total |-> d[0] + d[1] + d[2] + d[3] + d[4] + d[5]])

\* --------------------------------------------------- src/backend/main.py
PyMax4(a, b, c, d) == PyMax(PyMax(PyMax(a, b), c), d)

\* call['risk'].get(dim, {}).get('score', 0)
EndpointScore(call, dim) ==
    IF call.risk[dim].present THEN GetScore(call.risk[dim]) ELSE 0

EndpointMaxRisk(call) ==
    IF call.has_risk
    THEN PyMax4(EndpointScore(call, "suicide"), EndpointScore(call, "homicide"),
                EndpointScore(call, "self_harm"),
                EndpointScore(call, "harm_others"))
    ELSE 0

RECURSIVE EndpointFrom(_, _, _, _)
EndpointFrom(calls_data, i, risk_distribution, total_response_time) ==
    IF i > Len(calls_data)
    THEN LET total_calls == Len(calls_data) IN
         Ok([total_calls |-> total_calls,
             risk_distribution |-> risk_distribution,
             avg_response_time |->
                 IF total_calls > 0
                 THEN Quot(total_response_time, total_calls)
                 ELSE Quot(0, 1)])
    ELSE LET call == calls_data[i]
             key == PyStr(EndpointMaxRisk(call))
         IN  IF key \notin DOMAIN risk_distribution
             THEN Raise("KeyError")
             ELSE EndpointFrom(calls_data, i + 1,
                      [risk_distribution EXCEPT ![key] = @ + 1],
                      IF call.analytics.present /\ call.analytics.has
                      THEN total_response_time + call.analytics.rt
                      ELSE total_response_time)

get_analytics(calls_data) ==
    EndpointFrom(calls_data, 1,
                 [k \in {"0", "1", "2", "3", "4", "5"} |-> 0], 0)

\* ---- src/ui/components.py, the highest score of a call in the list
\* call["risk"][dim]["score"]: every subscript raises on a missing key
ListScore(call, dim) ==
    IF call.has_risk /\ call.risk[dim].present /\ call.risk[dim].has
    THEN Ok(call.risk[dim].score)
    ELSE Raise("KeyError")

ListMaxRisk(call) ==
    LET suicide == ListScore(call, "suicide")
        homicide == ListScore(call, "homicide")
        self_harm == ListScore(call, "self_harm")
        harm_others == ListScore(call, "harm_others")
    IN  IF ~suicide.ok THEN suicide
        ELSE IF ~homicide.ok THEN homicide
        ELSE IF ~self_harm.ok THEN self_harm
        ELSE IF ~harm_others.ok THEN harm_others
        ELSE Ok(PyMax4(suicide.val, homicide.val, self_harm.val,
                       harm_others.val))

\* ------------------------------------------------------------- operations
CallHasRedAlert ==
    /\ op = "idle"
    /\ op' = "has_red_alert"
    /\ result' = has_red_alert(risk)
    /\ UNCHANGED <<risk, calls, render, request, session>>

CallGetHighestRiskScore ==
    /\ op = "idle"
    /\ op' = "get_highest_risk_score"
    /\ result' = get_highest_risk_score(risk)
    /\ UNCHANGED <<risk, calls, render, request, session>>

CallGetEscalationRecommendations ==
    /\ op = "idle"
    /\ op' = "get_escalation_recommendations"
    /\ result' = get_escalation_recommendations(risk)
    /\ UNCHANGED <<risk, calls, render, request, session>>

\* A score rendered by the per-dimension views is the score of a dimension
\* of the risk mapping.
CallGetRiskLevelDescription(d) ==
    /\ op = "idle"
    /\ risk[d].present
    /\ op' = "get_risk_level_description"
    /\ result' = [score |-> GetScore(risk[d]),
                  out |-> get_risk_level_description(GetScore(risk[d]))]
    /\ UNCHANGED <<risk, calls, render, request, session>>

CallGetRiskLevel(d) ==
    /\ op = "idle"
    /\ risk[d].present
    /\ op' = "get_risk_level"
    /\ result' = [score |-> GetScore(risk[d]),
                  out |-> get_risk_level(GetScore(risk[d])),
                  badge |-> get_risk_badge_class(GetScore(risk[d]))]
    /\ UNCHANGED <<risk, calls, render, request, session>>

CallDrawRiskBarPdf(d) ==
    /\ op = "idle"
    /\ risk[d].present
    /\ op' = "draw_risk_bar_pdf"
    /\ result' = [score |-> GetScore(risk[d]),
                  out |-> draw_risk_bar_pdf(GetScore(risk[d]))]
    /\ UNCHANGED <<risk, calls, render, request, session>>

CallValidateRiskScores ==
    /\ op = "idle"
    /\ op' = "validate_risk_scores"
    /\ result' = validate_risk_scores(risk)
    /\ UNCHANGED <<risk, calls, render, request, session>>

CallDrawRiskSection ==
    /\ op = "idle"
    /\ op' = "draw_risk_section"
    /\ result' = draw_risk_section(risk)
    /\ UNCHANGED <<risk, calls, render, request, session>>

\* The dashboard grouping of one call that carries the risk mapping.
CallGetRiskSummaryOne ==
    /\ op = "idle"
    /\ op' = "get_risk_summary"
    /\ result' = get_risk_summary(<<Call(TRUE, risk, NoAnalytics)>>)
    /\ UNCHANGED <<risk, calls, render, request, session>>

\* The aggregate risk of one call that carries the risk mapping, as each of
\* the four places of the code computes it.
CallAggregateRisk ==
    /\ op = "idle"
    /\ op' = "aggregate_risk"
    /\ LET call == Call(TRUE, risk, NoAnalytics) IN
       result' = [highest |-> get_highest_risk_score(risk),
                  distribution |-> calculate_risk_distribution(<<call>>),
                  endpoint |-> get_analytics(<<call>>),
                  list |-> ListMaxRisk(call)]
    /\ UNCHANGED <<risk, calls, render, request, session>>

CallComputeAnalytics ==
    /\ op = "idle"
    /\ op' = "compute_analytics"
    /\ result' = compute_analytics(calls)
    /\ UNCHANGED <<risk, calls, render, request, session>>

CallCalculateRiskDistribution ==
    /\ op = "idle"
    /\ op' = "calculate_risk_distribution"
    /\ result' = calculate_risk_distribution(calls)
    /\ UNCHANGED <<risk, calls, render, request, session>>

CallCalculateAvgResponseTime ==
    /\ op = "idle"
    /\ op' = "calculate_avg_response_time"
    /\ result' = calculate_avg_response_time(calls)
    /\ UNCHANGED <<risk, calls, render, request, session>>

CallGetAnalytics ==
    /\ op = "idle"
    /\ op' = "get_analytics"
    /\ result' = get_analytics(calls)
    /\ UNCHANGED <<risk, calls, render, request, session>>

\* st.session_state of app.py after initialize_session_state
NoSession == [selected_call_id |-> [has |-> FALSE, val |-> ""]]

\* no report render and no request in progress, no call selected
NoRender ==
    /\ pdf_call = <<>>
    /\ pc = "none"
    /\ story = <<>>
    /\ out = <<>>
    /\ request = ""
    /\ session = NoSession

InitRisk ==
    /\ risk \in RiskObjs
    /\ calls = <<>>
    /\ op = "idle"
    /\ result = 0
    /\ NoRender

NextRisk ==
    \/ CallHasRedAlert
    \/ CallGetHighestRiskScore
    \/ CallGetEscalationRecommendations
    \/ \E d \in Dims : CallGetRiskLevelDescription(d)
    \/ \E d \in Dims : CallGetRiskLevel(d)
    \/ \E d \in Dims : CallDrawRiskBarPdf(d)
    \/ CallGetRiskSummaryOne
    \/ CallValidateRiskScores
    \/ CallDrawRiskSection
    \/ CallAggregateRisk

SpecRisk == InitRisk /\ [][NextRisk]_vars

InitAnalytics ==
    /\ risk = EmptyRisk
    /\ calls \in Corpora
    /\ op = "idle"
    /\ result = 0
    /\ NoRender

NextAnalytics ==
    \/ CallComputeAnalytics
    \/ CallCalculateRiskDistribution
    \/ CallCalculateAvgResponseTime
    \/ CallGetAnalytics

SpecAnalytics == InitAnalytics /\ [][NextAnalytics]_vars

\* ------------------------------------------------- the report of one call
FullSections == [k \in SectionKeys |-> Given("Notes on " \o k)]

\* the risk mappings handed to the report
ReportRisks ==
    [Dims -> {AbsentDim, NoScoreDim, ScoredDim(0), ScoredDim(4),
              ScoredDim(MaxScoreIn)}]

BaseCall ==
    [call_id |-> Given("CALL-001"),
     started_at |-> Stamp(15, 43170),
     ended_at |-> Stamp(15, 43215),
     duration_sec |-> Duration(45),
     channel |-> Given("phone"),
     caller_profile |-> Profile(Given("25-34"), Given("female")),
     analytics |-> CallAnalytics(Given("Counselor A")),
     summary |-> Summary(FullSections),
     has_risk |-> TRUE,
     risk |-> [d \in Dims |-> ScoredDim(2)]]

\* calls that vary in the fields of the header and the information table
InfoCalls ==
    {[BaseCall EXCEPT !.call_id = id, !.started_at = s, !.ended_at = e,
                      !.duration_sec = n, !.channel = c,
                      !.caller_profile = p, !.analytics = a,
                      !.summary = m, !.has_risk = h,
                      !.risk = IF h THEN @ ELSE EmptyRisk] :
        id \in {Missing, Given("CALL-001")},
        s \in {NoStamp, BadStamp, Stamp(15, 43170), Stamp(15, 46800)},
        e \in {NoStamp, BadStamp, Stamp(15, 43215), Stamp(15, 46800)},
        n \in {NoDuration, Duration(0), Duration(45)},
        c \in {Missing, Given(""), Given("phone")},
        p \in {NoProfile}
               \cup {Profile(g, x) :
                        g \in {Missing, Given("25-34")},
                        x \in {Missing, Given(""), Given("female"),
                               Given("Not specified")}},
        a \in {NoCallAnalytics, CallAnalytics(Missing),
               CallAnalytics(Given("Counselor A"))},
        m \in {NoSummary, Summary(FullSections)},
        h \in BOOLEAN}

\* calls that vary in the summary: each section missing, empty or filled
SummaryCalls ==
    {[BaseCall EXCEPT !.summary = m] :
        m \in {NoSummary, SummaryWithoutSections}
               \cup {Summary([k \in SectionKeys |->
                                 CASE g[k] = "missing" -> Missing
                                   [] g[k] = "empty" -> Given("")
                                   [] OTHER -> FullSections[k]]) :
                        g \in [SectionKeys -> {"missing", "empty", "filled"}]}}

\* calls that vary in the risk mapping
RiskCalls ==
    {[BaseCall EXCEPT !.risk = r] : r \in ReportRisks}
    \cup {[BaseCall EXCEPT !.has_risk = FALSE, !.risk = EmptyRisk]}

ReportCalls == InfoCalls \cup SummaryCalls \cup RiskCalls

\* generate_pdf_report, one statement at a time: a builder that raises ends
\* the render, the others extend the story
Fail(e) ==
    /\ pc' = "failed"
    /\ result' = e
    /\ UNCHANGED <<story, out>>

\* mutant: the document is written as the story grows
ExtendAndWrite(items, next) ==
    /\ story' = story \o items
    /\ out' = story \o items
    /\ pc' = next
    /\ UNCHANGED result

Extend(items, next) ==
    /\ story' = story \o items
    /\ pc' = next
    /\ UNCHANGED <<result, out>>

RenderHeader ==
    /\ pc = "header"
    /\ LET built == draw_header(pdf_call) IN
       IF built.ok THEN Extend(built.val \o <<Spacer("report")>>, "call_info")
       ELSE Fail(built)
    /\ UNCHANGED <<risk, calls, op, pdf_call, request, session>>

RenderCallInfo ==
    /\ pc = "call_info"
    /\ LET built == draw_call_info(pdf_call) IN
       IF built.ok THEN Extend(built.val \o <<Spacer("report")>>, "summary")
       ELSE Fail(built)
    /\ UNCHANGED <<risk, calls, op, pdf_call, request, session>>

\* mutant: the summary is put in front of what is already built
RenderSummaryPrepended ==
    /\ pc = "summary"
    /\ IF pdf_call.summary.present
       THEN /\ story' = draw_summary_sections(pdf_call.summary)
                         \o <<Spacer("report")>> \o story
            /\ pc' = "risk"
            /\ UNCHANGED <<result, out>>
       ELSE Fail(Raise("KeyError"))
    /\ UNCHANGED <<risk, calls, op, pdf_call, request, session>>

RenderSummary ==
    /\ pc = "summary"
    /\ IF pdf_call.summary.present
       THEN Extend(draw_summary_sections(pdf_call.summary)
                   \o <<Spacer("report")>>, "risk")
       ELSE Fail(Raise("KeyError"))
    /\ UNCHANGED <<risk, calls, op, pdf_call, request, session>>

RenderRisk ==
    /\ pc = "risk"
    /\ IF pdf_call.has_risk
       THEN LET built == draw_risk_section(pdf_call.risk) IN
            IF built.ok
            THEN Extend(built.val \o <<Spacer("report")>>, "footer")
            ELSE Fail(built)
       ELSE Fail(Raise("KeyError"))
    /\ UNCHANGED <<risk, calls, op, pdf_call, request, session>>

RenderFooter ==
    /\ pc = "footer"
    /\ Extend(draw_footer, "build")
    /\ UNCHANGED <<risk, calls, op, pdf_call, request, session>>

\* doc.build(story) writes the document; return output_path
RenderBuild ==
    /\ pc = "build"
    /\ out' = story
    /\ pc' = "done"
    /\ result' = Ok("output_path")
    /\ UNCHANGED <<risk, calls, op, pdf_call, story, request, session>>

InitReport ==
    /\ pdf_call \in ReportCalls
    /\ pc = "header"
    /\ story = <<>>
    /\ out = <<>>
    /\ op = "generate_pdf_report"
    /\ result = 0
    /\ risk = EmptyRisk
    /\ calls = <<>>
    /\ request = ""
    /\ session = NoSession

NextReport ==
    \/ RenderHeader
    \/ RenderCallInfo
    \/ RenderSummary
    \/ RenderRisk
    \/ RenderFooter
    \/ RenderBuild

SpecReport == InitReport /\ [][NextReport]_vars

\* ------------------------------------------------------ the loaded corpus
CallIds == {"CALL-001", "CALL-002", "CALL-003"}

\* a call_id no call of the corpus has
UnknownId == "CALL-404"

\* The records of one call_id: parsable or unparsable started_at; all four
\* dimensions scored, one dimension missing, or no risk mapping at all.
RecordsOf(id) ==
    {[BaseCall EXCEPT !.call_id = Given(id), !.started_at = s,
                      !.has_risk = h.has_risk, !.risk = h.risk] :
        s \in {BadStamp, Stamp(15, 43170)},
        h \in {[has_risk |-> TRUE, risk |-> [d \in Dims |-> ScoredDim(1)]],
               [has_risk |-> TRUE,
                risk |-> [d \in Dims |->
                            IF d = "suicide" THEN ScoredDim(4)
                            ELSE ScoredDim(0)]],
               [has_risk |-> TRUE,
                risk |-> [d \in Dims |->
                            IF d = "homicide" THEN AbsentDim
                            ELSE ScoredDim(2)]],
               [has_risk |-> FALSE, risk |-> EmptyRisk]}}

\* load_all_calls(): at most MaxCalls records, their call_ids distinct
LoadedCorpora ==
    {cs \in UNION {[1..n -> UNION {RecordsOf(id) : id \in CallIds}] :
                     n \in 0..MaxCalls} :
        \A i, j \in 1..Len(cs) :
            cs[i].call_id = cs[j].call_id => i = j}

\* --------------------------------------------------- src/ui/components.py
\* strftime("%H:%M")
Strftime24(t) ==
    TwoDigits((t.sec \div 3600) % 24) \o ":" \o TwoDigits((t.sec \div 60) % 60)

\* call["summary"]["sections"].get("presenting_problem", ...), cut at 80
ListSubject(call) ==
    IF ~(call.summary.present /\ call.summary.has_sections)
    THEN Raise("KeyError")
    ELSE LET presenting_problem ==
                 GetOr(call.summary.sections["presenting_problem"],
                       "No summary available")
         IN  Ok(IF Len(presenting_problem) > 80
                THEN SubSeq(presenting_problem, 1, 80) \o "..."
                ELSE presenting_problem)

\* one iteration of the loop: the item of the call, or the exception
ListRow(call, selected_call_id) ==
    LET max_risk == ListMaxRisk(call)
        subject == ListSubject(call)
        start_time ==
            IF ~call.started_at.has THEN Raise("KeyError")
            ELSE FromIsoFormat(call.started_at)
    IN  IF ~max_risk.ok THEN max_risk
        ELSE IF ~subject.ok THEN subject
        ELSE IF ~start_time.ok THEN start_time
        ELSE IF ~call.call_id.has THEN Raise("KeyError")
        ELSE Ok([call_id |-> call.call_id.val,
                 subject |-> subject.val,
                 time |-> Strftime24(start_time.val),
                 max_risk |-> max_risk.val,
                 risk_level |-> get_risk_level(max_risk.val),
                 badge |-> get_risk_badge_class(max_risk.val),
                 selected |-> selected_call_id = call.call_id])

\* The items put on the page one after the other; an exception ends the
\* script, the items before it stay.
RECURSIVE ListFrom(_, _, _, _)
ListFrom(visible_calls, selected_call_id, i, rows) ==
    IF i > Len(visible_calls)
    THEN [ok |-> TRUE, rows |-> rows, err |-> ""]
    ELSE LET row == ListRow(visible_calls[i], selected_call_id) IN
         IF ~row.ok THEN [ok |-> FALSE, rows |-> rows, err |-> row.err]
         ELSE ListFrom(visible_calls, selected_call_id, i + 1,
                       Append(rows, row.val))

\* without a click; "No calls available" is the list without items
render_call_list(visible_calls, selected_call_id) ==
    ListFrom(visible_calls, selected_call_id, 1, <<>>)

\* ------------------------------------- src/backend/main.py, the call routes
\* next((call for call in calls_data if call["call_id"] == call_id), None):
\* the index of the first match, 0 for None
RECURSIVE FindFrom(_, _, _)
FindFrom(calls_data, call_id, i) ==
    IF i > Len(calls_data) THEN Ok(0)
    ELSE IF ~calls_data[i].call_id.has THEN Raise("KeyError")
    ELSE IF calls_data[i].call_id.val = call_id THEN Ok(i)
    ELSE FindFrom(calls_data, call_id, i + 1)

NoCall == [BaseCall EXCEPT !.call_id = Missing]

\* The answer to a request: the status, the detail of an HTTPException, the
\* call or the report returned, and whether a report was asked for.
Response(status, detail) ==
    [status |-> status, detail |-> detail, call |-> NoCall,
     content |-> "", filename |-> "", generated |-> FALSE]

\* render_report(call) -> bytes: fails on a call it cannot parse
generate_call_report(call) ==
    IF Parsable(call.started_at) /\ Parsable(call.ended_at)
    THEN Ok("report of " \o call.call_id.val)
    ELSE Raise("ValueError")

\* report_filename(call_id), the date of the render left out
get_report_filename(call_id) == "EmpathZ_CaseReport_" \o call_id \o ".pdf"

get_call(calls_data, call_id) ==
    LET call == FindFrom(calls_data, call_id, 1) IN
    IF ~call.ok THEN Response(500, "Internal Server Error")
    ELSE IF call.val = 0 THEN Response(404, "Call not found")
    ELSE [Response(200, "") EXCEPT !.call = calls_data[call.val]]

\* mutant: the call is looked up inside the try block, whose handler turns
\* every exception into a 500
download_pdf_lookup_in_try(calls_data, call_id) ==
    LET call == FindFrom(calls_data, call_id, 1) IN
    IF ~call.ok \/ call.val = 0
    THEN Response(500, "Error generating PDF: 404: Call not found")
    ELSE LET pdf_content == generate_call_report(calls_data[call.val]) IN
         IF ~pdf_content.ok
         THEN [Response(500, "Error generating PDF: " \o pdf_content.err)
                  EXCEPT !.generated = TRUE]
         ELSE [Response(200, "") EXCEPT
                  !.content = pdf_content.val,
                  !.filename = get_report_filename(call_id),
                  !.generated = TRUE]

download_pdf(calls_data, call_id) ==
    LET call == FindFrom(calls_data, call_id, 1) IN
    IF ~call.ok THEN Response(500, "Internal Server Error")
    ELSE IF call.val = 0 THEN Response(404, "Call not found")
    ELSE LET pdf_content == generate_call_report(calls_data[call.val]) IN
         IF ~pdf_content.ok
         THEN [Response(500, "Error generating PDF: " \o pdf_content.err)
                  EXCEPT !.generated = TRUE]
         ELSE [Response(200, "") EXCEPT
                  !.content = pdf_content.val,
                  !.filename = get_report_filename(call_id),
                  !.generated = TRUE]

\* ------------------------------------------------------------ src/app.py
\* The right pane of the Call Records tab.
DetailPane(all_calls, selected_call_id) ==
    IF ~selected_call_id.has \/ selected_call_id.val = ""
    THEN [view |-> "info", text |-> "Select a call from the list to view details",
          call_id |-> ""]
    ELSE LET selected_call == FindFrom(all_calls, selected_call_id.val, 1) IN
         IF ~selected_call.ok
         THEN [view |-> "error", text |-> selected_call.err, call_id |-> ""]
         ELSE IF selected_call.val = 0
         THEN [view |-> "info", text |-> "Call not found", call_id |-> ""]
         ELSE [view |-> "detail", text |-> "",
               call_id |-> all_calls[selected_call.val].call_id.val]

\* One run of main() on the Call Records tab: the list, then the right pane
\* unless the list has raised.
CallRecordsTab(all_calls, selected_call_id) ==
    LET list == render_call_list(all_calls, selected_call_id) IN
    [list |-> list,
     detail |-> IF list.ok THEN DetailPane(all_calls, selected_call_id)
                ELSE [view |-> "none", text |-> "", call_id |-> ""]]

\* ------------------------------------------------ operations on the corpus
GetCall ==
    /\ op = "idle"
    /\ op' = "get_call"
    /\ result' = get_call(calls, request)
    /\ UNCHANGED <<risk, calls, render, request, session>>

DownloadPdf ==
    /\ op = "idle"
    /\ op' = "download_pdf"
    /\ result' = download_pdf(calls, request)
    /\ UNCHANGED <<risk, calls, render, request, session>>

\* main() with the button of item `clicked` pressed (0: none). A button is
\* reached when its item is on the page; it stores the selection and
\* st.rerun() runs the script again, now without a click.
Main(clicked) ==
    /\ op \in {"idle", "main"}
    /\ op' = "main"
    /\ LET first == render_call_list(calls, session.selected_call_id) IN
       IF clicked > 0 /\ clicked <= Len(first.rows)
       THEN session' = [session EXCEPT
                           !.selected_call_id = calls[clicked].call_id]
       ELSE session' = session
    /\ result' = CallRecordsTab(calls, session'.selected_call_id)
    /\ UNCHANGED <<risk, calls, render, request>>

\* --------------------------------------------------------- src/api/pdf.py
\* DEMO_CALL, the one call the endpoint reports on
DEMO_CALL == [BaseCall EXCEPT !.call_id = Given("CALL-2025-002")]

\* do_GET, by the lines it hands to the connection. send_response and
\* send_header append to the header buffer of the handler, end_headers
\* sends the buffer followed by an empty line, wfile.write sends the body
\* (the Server and Date headers of send_response are left out). `raises`
\* says whether generate_call_report raises.
DoGet(raises) ==
    /\ op = "idle"
    /\ op' = "do_GET"
    /\ LET headers == <<"HTTP/1.0 200 OK",
                        "Access-Control-Allow-Origin: *",
                        "Access-Control-Allow-Methods: GET, POST, OPTIONS",
                        "Access-Control-Allow-Headers: Content-Type",
                        "Content-type: application/pdf">>
           pdf_content == IF raises THEN Raise("Exception")
                          ELSE generate_call_report(DEMO_CALL)
           filename == get_report_filename(DEMO_CALL.call_id.val)
       IN  result' =
               [raised |-> ~pdf_content.ok,
                wire |->
                    IF pdf_content.ok
                    THEN headers
                         \o <<"Content-Disposition: attachment; filename=\""
                               \o filename \o "\"",
                              "", pdf_content.val>>
                    ELSE headers
                         \o <<"HTTP/1.0 500 Internal Server Error",
                              "Content-type: application/json",
                              "", "{\"error\": \"" \o pdf_content.err
                                  \o "\"}">>]
    /\ UNCHANGED <<risk, calls, render, request, session>>

InitCalls ==
    /\ calls \in LoadedCorpora
    /\ request \in CallIds \cup {UnknownId}
    /\ risk = EmptyRisk
    /\ op = "idle"
    /\ result = 0
    /\ pdf_call = <<>>
    /\ pc = "none"
    /\ story = <<>>
    /\ out = <<>>
    /\ session = NoSession

NextCalls ==
    \/ GetCall
    \/ DownloadPdf
    \/ \E clicked \in 0..MaxCalls : Main(clicked)
    \/ CallCalculateRiskDistribution
    \/ \E raises \in BOOLEAN : DoGet(raises)

SpecCalls == InitCalls /\ [][NextCalls]_vars

\* ------------------------------- src/ui/components.py, the PDF button
\* The handler of the PDF button of render_call_detail_view (the same code
\* is the handler of "Download Report" of render_side_panel), run by two
\* sessions of the app that share the temporary directory.
Sessions == {1, 2}

\* datetime.now().strftime("%Y%m%d") at the time of a click
Days == {"20250115", "20250116"}

\* mutant: the file is named by the day only
create_download_filename_by_day(call, today) ==
    "EmpathZ_CaseReport_" \o today \o ".pdf"

create_download_filename(call, today) ==
    "EmpathZ_CaseReport_" \o GetOr(call.call_id, "UNKNOWN") \o "_" \o today
    \o ".pdf"

\* the story generate_pdf_report hands to doc.build, or the exception of
\* the first builder that raises
ReportStory(call) ==
    LET header == draw_header(call)
        call_info == draw_call_info(call)
        risk_section == IF call.has_risk THEN draw_risk_section(call.risk)
                        ELSE Raise("KeyError")
    IN  IF ~header.ok THEN header
        ELSE IF ~call_info.ok THEN call_info
        ELSE IF ~call.summary.present THEN Raise("KeyError")
        ELSE IF ~risk_section.ok THEN risk_section
        ELSE Ok(header.val \o <<Spacer("report")>>
                \o call_info.val \o <<Spacer("report")>>
                \o draw_summary_sections(call.summary) \o <<Spacer("report")>>
                \o risk_section.val \o <<Spacer("report")>>
                \o draw_footer)

\* the calls the two sessions have selected
SessionCalls ==
    {[BaseCall EXCEPT !.call_id = Given(id), !.started_at = t] :
        id \in {"CALL-001", "CALL-002"}, t \in {BadStamp, Stamp(15, 43170)}}

\* A path of the temporary directory: no file, or the file with the session
\* that created it (its identity), the session that wrote it last, and its
\* content, which is incomplete from the open for writing to the write.
NoFile ==
    [exists |-> FALSE, inode |-> 0, writer |-> 0, complete |-> FALSE,
     data |-> <<>>]

TempPaths ==
    {create_download_filename(c, d) : c \in SessionCalls, d \in Days}

\* if st.button("PDF"): filename = create_download_filename(call)
ClickPdf(s, today) ==
    /\ session[s].pc = "idle"
    /\ session' = [session EXCEPT
                      ![s].filename =
                          create_download_filename(session[s].call, today),
                      ![s].pc = "generate"]
    /\ UNCHANGED <<risk, calls, op, result, render, request>>

\* generate_pdf_report up to doc.build: the builders
BuildStory(s) ==
    /\ session[s].pc = "generate"
    /\ LET built == ReportStory(session[s].call) IN
       session' = IF built.ok
                  THEN [session EXCEPT ![s].doc = built.val,
                                       ![s].pc = "open"]
                  ELSE [session EXCEPT ![s].error = built.err,
                                       ![s].pc = "error"]
    /\ UNCHANGED <<risk, calls, op, result, render, request>>

\* doc.build, first half: the file is opened for writing, which creates it
\* or empties the file that is there
OpenForWrite(s) ==
    /\ session[s].pc = "open"
    /\ LET path == session[s].filename
           file == IF out[path].exists
                   THEN [out[path] EXCEPT !.writer = s, !.complete = FALSE,
                                          !.data = <<>>]
                   ELSE [exists |-> TRUE, inode |-> s, writer |-> s,
                         complete |-> FALSE, data |-> <<>>]
       IN  /\ out' = [out EXCEPT ![path] = file]
           /\ session' = [session EXCEPT ![s].handle = file.inode,
                                         ![s].pc = "write"]
    /\ UNCHANGED <<risk, calls, op, result, pdf_call, pc, story, request>>

\* doc.build, second half: the document is written to the opened file, which
\* may have been removed from the directory in between
WriteData(s) ==
    /\ session[s].pc = "write"
    /\ LET path == session[s].filename IN
       out' = IF out[path].exists /\ out[path].inode = session[s].handle
              THEN [out EXCEPT ![path].writer = s, ![path].complete = TRUE,
                               ![path].data = session[s].doc]
              ELSE out
    /\ session' = [session EXCEPT ![s].pc = "read"]
    /\ UNCHANGED <<risk, calls, op, result, pdf_call, pc, story, request>>

\* with open(pdf_path, "rb") as f: st.download_button(data=f.read(), ...)
\* and st.success(...); offered says whether the two calls into the user
\* interface return, the exception they raise otherwise is caught by the
\* handler like any other
ReadBack(s, offered) ==
    /\ session[s].pc = "read"
    /\ LET file == out[session[s].filename] IN
       session' = IF ~file.exists
                  THEN [session EXCEPT ![s].error = "FileNotFoundError",
                                       ![s].pc = "error"]
                  ELSE IF ~offered
                  THEN [session EXCEPT ![s].error = "StreamlitAPIException",
                                       ![s].pc = "error"]
                  ELSE [session EXCEPT ![s].data = file.data,
                                       ![s].complete = file.complete,
                                       ![s].pc = "exists"]
    /\ UNCHANGED <<risk, calls, op, result, render, request>>

\* if os.path.exists(temp_path):
CheckExists(s) ==
    /\ session[s].pc = "exists"
    /\ session' = [session EXCEPT ![s].pc =
                      IF out[session[s].filename].exists THEN "remove"
                      ELSE "done"]
    /\ UNCHANGED <<risk, calls, op, result, render, request>>

\* os.remove(temp_path)
RemoveTemp(s) ==
    /\ session[s].pc = "remove"
    /\ LET path == session[s].filename IN
       IF out[path].exists
       THEN /\ out' = [out EXCEPT ![path] = NoFile]
            /\ session' = [session EXCEPT ![s].pc = "done"]
       ELSE /\ out' = out
            /\ session' = [session EXCEPT ![s].error = "FileNotFoundError",
                                          ![s].pc = "error"]
    /\ UNCHANGED <<risk, calls, op, result, pdf_call, pc, story, request>>

InitSessions ==
    /\ session \in [Sessions ->
                       {[call |-> c, pc |-> "idle", filename |-> "",
                         doc |-> <<>>, handle |-> 0, data |-> <<>>,
                         complete |-> FALSE, error |-> ""] :
                           c \in SessionCalls}]
    /\ out = [path \in TempPaths \cup {""} |-> NoFile]
    /\ risk = EmptyRisk
    /\ calls = <<>>
    /\ op = "download_btn"
    /\ result = 0
    /\ pdf_call = <<>>
    /\ pc = "none"
    /\ story = <<>>
    /\ request = ""

NextSessions ==
    \E s \in Sessions :
        \/ \E today \in Days : ClickPdf(s, today)
        \/ BuildStory(s)
        \/ OpenForWrite(s)
        \/ WriteData(s)
        \/ \E offered \in BOOLEAN : ReadBack(s, offered)
        \/ CheckExists(s)
        \/ RemoveTemp(s)

SpecSessions == InitSessions /\ [][NextSessions]_vars

\* ------------------------------------------------------ src/app_simple.py
\* The records load_all_calls() can put at position i of the corpus: the
\* call_ids are distinct; the scores are low, or red, or the risk mapping is
\* missing.
SimpleRecords(i) ==
    {[BaseCall EXCEPT !.call_id = Given("CALL-00" \o PyStr(i)),
                      !.analytics = ResponseTime(1),
                      !.has_risk = h.has_risk, !.risk = h.risk] :
        h \in {[has_risk |-> TRUE, risk |-> [d \in Dims |-> ScoredDim(1)]],
               [has_risk |-> TRUE,
                risk |-> [d \in Dims |->
                            IF d = "suicide" THEN ScoredDim(4)
                            ELSE ScoredDim(0)]],
               [has_risk |-> FALSE, risk |-> EmptyRisk]}}

\* two calls are shown from the start, up to MaxCalls wait in the queue
SimpleCorpora ==
    UNION {{cs \in [1..n -> UNION {SimpleRecords(i) : i \in 1..n}] :
               \A i \in 1..n : cs[i] \in SimpleRecords(i)} :
           n \in 0..(MaxCalls + 2)}

\* calls[:2]
FirstTwo(cs) == SubSeq(cs, 1, IF Len(cs) < 2 THEN Len(cs) ELSE 2)

\* calls[k:]
SliceFrom(cs, k) == IF Len(cs) <= k THEN <<>> ELSE SubSeq(cs, k + 1, Len(cs))

\* mutant: the queue starts at the second call
initialize_session_state_from_second(loaded) ==
    [calls_all |-> loaded,
     visible_call_ids |->
         {FirstTwo(loaded)[i].call_id.val : i \in 1..Len(FirstTwo(loaded))},
     selected_call_id |-> [has |-> FALSE, val |-> ""],
     pending_simulation_queue |-> SliceFrom(loaded, 1),
     ui_phase |-> "idle"]

initialize_session_state(loaded) ==
    [calls_all |-> loaded,
     visible_call_ids |->
         {FirstTwo(loaded)[i].call_id.val : i \in 1..Len(FirstTwo(loaded))},
     selected_call_id |-> [has |-> FALSE, val |-> ""],
     pending_simulation_queue |-> SliceFrom(loaded, 2),
     ui_phase |-> "idle"]

\* mutant: the queue is the corpus itself, the call is taken off both
simulate_new_analysis_in_place(ss) ==
    LET next_call == Head(ss.pending_simulation_queue) IN
    [ss EXCEPT !.pending_simulation_queue = Tail(@),
               !.calls_all =
                   SelectSeq(@, LAMBDA c : c.call_id # next_call.call_id),
               !.visible_call_ids = @ \cup {next_call.call_id.val},
               !.selected_call_id = next_call.call_id,
               !.ui_phase = "summary_generating"]

\* mutant: pop() takes the last call of the queue
simulate_new_analysis_pop_last(ss) ==
    LET queue == ss.pending_simulation_queue
        next_call == queue[Len(queue)]
    IN  [ss EXCEPT !.pending_simulation_queue = SubSeq(queue, 1, Len(queue) - 1),
                   !.visible_call_ids = @ \cup {next_call.call_id.val},
                   !.selected_call_id = next_call.call_id,
                   !.ui_phase = "summary_generating"]

\* simulate_new_analysis with a call in the queue, up to the first spinner
simulate_new_analysis(ss) ==
    LET next_call == Head(ss.pending_simulation_queue) IN
    [ss EXCEPT !.pending_simulation_queue = Tail(@),
               !.visible_call_ids = @ \cup {next_call.call_id.val},
               !.selected_call_id = next_call.call_id,
               !.ui_phase = "summary_generating"]

\* mutant: every loaded call is handed to the list and the analytics
VisibleCallsAll(ss) == ss.calls_all

\* [call for call in calls_all if call["call_id"] in visible_call_ids]
VisibleCalls(ss) ==
    SelectSeq(ss.calls_all, LAMBDA c : c.call_id.val \in ss.visible_call_ids)

\* src/ui/components.py: what render_side_panel puts under "Case Summary"
\* and under "Risk Assessment"
render_side_panel(ui_phase) ==
    [summary |->
         IF ui_phase \in {"summary_generating", "idle"}
            /\ ui_phase # "summary_done"
         THEN IF ui_phase = "summary_generating" THEN "Generating Summary..."
              ELSE "Summary will appear after analysis"
         ELSE "summary",
     risk |->
         IF ui_phase \in {"risk_evaluating", "summary_generating", "idle"}
            /\ ui_phase # "complete"
         THEN IF ui_phase = "risk_evaluating" THEN "Evaluating Risk..."
              ELSE "Risk assessment will appear after analysis"
         ELSE "risk"]

NoPanel == [summary |-> "", risk |-> ""]

\* One run of main() without a click: the page. An exception ends the run:
\* the Simulate button is on the page when the banner and the list were
\* rendered, the side panel and the analytics row follow it.
MainSimple(ss) ==
    LET visible_calls == VisibleCalls(ss)
        found == IF ss.selected_call_id.has /\ ss.selected_call_id.val # ""
                 THEN FindFrom(visible_calls, ss.selected_call_id.val, 1)
                 ELSE Ok(0)
        alert == IF found.val = 0 THEN Ok(FALSE)
                 ELSE IF ~visible_calls[found.val].has_risk
                 THEN Raise("KeyError")
                 ELSE Ok(has_red_alert(visible_calls[found.val].risk))
        list == IF alert.ok
                THEN render_call_list(visible_calls, ss.selected_call_id)
                ELSE [ok |-> FALSE, rows |-> <<>>, err |-> alert.err]
    IN  [alert |-> alert.ok /\ alert.val,
         list |-> list,
         button |-> list.ok,
         warning |-> FALSE,
         selected |-> IF list.ok /\ found.val # 0
                      THEN visible_calls[found.val].call_id.val ELSE "",
         panel |-> IF list.ok /\ found.val # 0
                   THEN render_side_panel(ss.ui_phase) ELSE NoPanel,
         total_calls |-> IF list.ok /\ compute_analytics(visible_calls).ok
                         THEN compute_analytics(visible_calls).val.total_calls
                         ELSE -1]

\* the Simulate button: st.warning and the rest of the page when the queue
\* is empty, otherwise simulate_new_analysis up to the first spinner
ClickSimulate ==
    /\ pc = "waiting"
    /\ result.button
    /\ IF session.pending_simulation_queue = <<>>
       THEN /\ session' = session
            /\ pc' = pc
            /\ result' = [MainSimple(session) EXCEPT !.warning = TRUE]
       ELSE /\ session' = simulate_new_analysis(session)
            /\ pc' = "spinner_summary"
            /\ result' = result
    /\ UNCHANGED <<risk, calls, op, pdf_call, story, out, request>>

\* ui_phase = "summary_done"
SummaryDone ==
    /\ pc = "spinner_summary"
    /\ session' = [session EXCEPT !.ui_phase = "summary_done"]
    /\ pc' = "summary_done"
    /\ UNCHANGED <<risk, calls, op, result, pdf_call, story, out, request>>

\* ui_phase = "risk_evaluating"
RiskEvaluating ==
    /\ pc = "summary_done"
    /\ session' = [session EXCEPT !.ui_phase = "risk_evaluating"]
    /\ pc' = "spinner_risk"
    /\ UNCHANGED <<risk, calls, op, result, pdf_call, story, out, request>>

\* ui_phase = "complete"; st.rerun()
Complete ==
    /\ pc = "spinner_risk"
    /\ session' = [session EXCEPT !.ui_phase = "complete"]
    /\ pc' = "waiting"
    /\ result' = MainSimple(session')
    /\ UNCHANGED <<risk, calls, op, pdf_call, story, out, request>>

\* the button of item `clicked` of the list: the selection and st.rerun()
SelectCall(clicked) ==
    /\ pc = "waiting"
    /\ clicked \in 1..Len(result.list.rows)
    /\ session' = [session EXCEPT !.selected_call_id =
                      Given(result.list.rows[clicked].call_id)]
    /\ pc' = pc
    /\ result' = MainSimple(session')
    /\ UNCHANGED <<risk, calls, op, pdf_call, story, out, request>>

InitSimple ==
    /\ \E loaded \in SimpleCorpora :
           session = initialize_session_state(loaded)
    /\ result = MainSimple(session)
    /\ pc = "waiting"
    /\ risk = EmptyRisk
    /\ calls = <<>>
    /\ op = "app_simple"
    /\ pdf_call = <<>>
    /\ story = <<>>
    /\ out = <<>>
    /\ request = ""

NextSimple ==
    \/ ClickSimulate
    \/ SummaryDone
    \/ RiskEvaluating
    \/ Complete
    \/ \E clicked \in 1..(MaxCalls + 2) : SelectCall(clicked)

SpecSimple == InitSimple /\ [][NextSimple]_vars

\* ================================================================ claims
\* Reference notions of the claims, stated without the loops of the code.
SetMax(S) == CHOOSE m \in S : \A x \in S : x <= m

\* the score of a dimension, an absent dimension or score counting as 0
DimScore(r, d) == IF r[d].present /\ r[d].has THEN r[d].score ELSE 0

DimMax(r) == SetMax({DimScore(r, d) : d \in Dims})

PresentScores(r) == {DimScore(r, d) : d \in {x \in Dims : r[x].present}}

ScoresWithin(r, lo, hi) ==
    \A d \in Dims : DimScore(r, d) >= lo /\ DimScore(r, d) <= hi

ValidCorpus(cs) ==
    \A i \in 1..Len(cs) : ScoresWithin(cs[i].risk, 0, 5)

CallsInBucket(cs, b) ==
    Cardinality({i \in 1..Len(cs) : DimMax(cs[i].risk) = b})

Clamp(s) == IF s < 0 THEN 0 ELSE IF s > 5 THEN 5 ELSE s

SumBuckets(d) == d[0] + d[1] + d[2] + d[3] + d[4] + d[5]

SameQuot(a, b) == a.num * b.den = b.num * a.den

Tiers(recs) == [i \in 1..Len(recs) |-> recs[i].tier]

Bucket(s) == IF s <= 1 THEN "LOW" ELSE IF s <= 3 THEN "MODERATE" ELSE "HIGH"

\* the bucket a label, badge class or bar colour stands for
LabelBucket(label) ==
    IF label \in {"LOW RISK", "LOW", "risk-badge-low", "#10b981"} THEN "LOW"
    ELSE IF label \in {"MODERATE RISK", "MOD", "risk-badge-mod", "#f59e0b"}
    THEN "MODERATE"
    ELSE IF label \in {"HIGH RISK", "HIGH", "risk-badge-high", "#dc2626"}
    THEN "HIGH"
    ELSE label

\* the group of the dashboard summary that counts the single call
SummaryBucket(summary) ==
    IF summary.low_risk = 1 /\ summary.moderate_risk = 0 /\ summary.high_risk = 0
    THEN "LOW"
    ELSE IF summary.low_risk = 0 /\ summary.moderate_risk = 1
            /\ summary.high_risk = 0
    THEN "MODERATE"
    ELSE IF summary.low_risk = 0 /\ summary.moderate_risk = 0
            /\ summary.high_risk = 1
    THEN "HIGH"
    ELSE "NONE"

\* C1: has_red_alert(risk) is true exactly when the maximum of the four
\* dimension scores (an absent dimension counting as 0) is at least 4.
C1_RedAlertIffMaxAtLeast4 ==
    op = "has_red_alert" => (result <=> DimMax(risk) >= 4)

C1_Witness ==
    /\ op = "has_red_alert"
    /\ result = TRUE
    /\ ScoresWithin(risk, 0, 5)
    /\ ~risk["suicide"].present
    /\ DimScore(risk, "harm_others") = 4
    /\ DimScore(risk, "self_harm") = 3

\* C2: whenever compute_analytics returns, the keys of risk_distribution are
\* exactly 0..5, its counts sum to total_calls and total_calls is the number
\* of input calls; and it does return when every score is in 0..5.
C2_DistributionSumsToTotal ==
    op = "compute_analytics" =>
        /\ ValidCorpus(calls) => result.ok
        /\ result.ok =>
              /\ DOMAIN result.val.risk_distribution = 0..5
              /\ SumBuckets(result.val.risk_distribution) = result.val.total_calls
              /\ result.val.total_calls = Len(calls)

C2_Witness ==
    /\ op = "compute_analytics"
    /\ Len(calls) = 2
    /\ result.ok
    /\ result.val.risk_distribution[0] = 1
    /\ result.val.risk_distribution[5] = 1
    /\ result.val.total_calls = 2

\* C3: compute_analytics of the empty sequence returns total_calls = 0, the
\* six buckets 0..5 all 0 and avg_response_time = 0, and does not raise.
C3_EmptyInput ==
    (op = "compute_analytics" /\ calls = <<>>) =>
        /\ result.ok
        /\ result.val.total_calls = 0
        /\ result.val.risk_distribution = [b \in 0..5 |-> 0]
        /\ result.val.avg_response_time.num = 0
        /\ result.val.avg_response_time.den > 0

C3_Witness ==
    op = "compute_analytics" /\ calls = <<>> /\ result.ok

\* C4: calculate_risk_distribution counts each call once, in the bucket of
\* the maximum (not the sum) of its four dimension scores, a missing risk
\* mapping or dimension counting as score 0.
C4_BucketIsMaximum ==
    (op = "calculate_risk_distribution" /\ ValidCorpus(calls)) =>
        /\ result.ok
        /\ \A b \in 0..5 : result.val[b] = CallsInBucket(calls, b)

C4_Witness ==
    /\ op = "calculate_risk_distribution"
    /\ Len(calls) = 2
    /\ ~calls[1].has_risk
    /\ DimScore(calls[2].risk, "suicide") = 3
    /\ DimScore(calls[2].risk, "harm_others") = 2
    /\ result.ok
    /\ result.val[3] = 1
    /\ result.val[0] = 1

\* the sum of the response times that are present and > 0
RECURSIVE SumResponseTimes(_, _)
SumResponseTimes(cs, n) ==
    IF n = 0 THEN 0
    ELSE SumResponseTimes(cs, n - 1) +
         (IF cs[n].analytics.has /\ cs[n].analytics.rt > 0
          THEN cs[n].analytics.rt ELSE 0)

TimedCalls(cs) ==
    {i \in 1..Len(cs) : cs[i].analytics.has /\ cs[i].analytics.rt > 0}

\* C5: calculate_avg_response_time is the sum of response_time_sec over the
\* calls where it is present and > 0, divided by the number of those calls,
\* and 0.0 when there is no such call.
C5_AverageOverTimedCalls ==
    op = "calculate_avg_response_time" =>
        /\ result.den > 0
        /\ IF TimedCalls(calls) = {}
           THEN result.num = 0
           ELSE result.num * Cardinality(TimedCalls(calls))
                    = SumResponseTimes(calls, Len(calls)) * result.den

C5_Witness ==
    /\ op = "calculate_avg_response_time"
    /\ Len(calls) = 2
    /\ calls[1].analytics = ResponseTime(0)
    /\ calls[2].analytics = ResponseTime(2)
    /\ result = Quot(2, 1)

\* C6: the avg_response_time of the /api/analytics endpoint leaves out the
\* calls without a response time and equals the one compute_analytics
\* returns for the same corpus.
C6_EndpointAverageAgrees ==
    (op = "get_analytics" /\ result.ok /\ compute_analytics(calls).ok) =>
        SameQuot(result.val.avg_response_time,
                 compute_analytics(calls).val.avg_response_time)

\* C7: the recommendations follow the highest score: >= 4 gives two
\* IMMEDIATE items and then two HIGH PRIORITY items, 2..3 only MODERATE
\* items, 1 only LOW items, 0 none.
C7_EscalationTiers ==
    op = "get_escalation_recommendations" =>
        LET h == DimMax(risk)
            t == Tiers(result)
        IN  /\ h >= 4 =>
                  t = <<"IMMEDIATE", "IMMEDIATE", "HIGH PRIORITY", "HIGH PRIORITY">>
            /\ h \in 2..3 =>
                  Len(t) > 0 /\ \A i \in 1..Len(t) : t[i] = "MODERATE"
            /\ h = 1 => Len(t) > 0 /\ \A i \in 1..Len(t) : t[i] = "LOW"
            /\ h <= 0 => result = <<>>

C7_Witness ==
    /\ op = "get_escalation_recommendations"
    /\ DimMax(risk) = 5
    /\ ~risk["homicide"].present
    /\ Len(result) = 4
    /\ result[1].tier = "IMMEDIATE"
    /\ result[3].tier = "HIGH PRIORITY"

\* C8: get_highest_risk_score is the maximum score of the dimensions that
\* are present, 0 for the empty mapping, and an integer whatever is missing
\* (a missing dimension contributes 0).
C8_HighestIsMaximum ==
    op = "get_highest_risk_score" =>
        /\ result \in Int
        /\ result = SetMax(PresentScores(risk) \cup {0})
        /\ PresentScores(risk) = {} => result = 0
        /\ (PresentScores(risk) # {} /\ \A x \in PresentScores(risk) : x >= 0)
              => result = SetMax(PresentScores(risk))

C8_Witness ==
    /\ op = "get_highest_risk_score"
    /\ ~risk["suicide"].present
    /\ ~risk["harm_others"].present
    /\ DimScore(risk, "homicide") = 4
    /\ DimScore(risk, "self_harm") = 2
    /\ result = 4

\* C9 as stated: every component puts every score of 0..5 in the bucket
\* LOW (<= 1), MODERATE (2..3) or HIGH (>= 4), and in no fourth one.
C9_OneBucketingEverywhere ==
    /\ (op = "get_risk_level_description" /\ result.score \in 0..5) =>
          LabelBucket(result.out) = Bucket(result.score)
    /\ (op = "get_risk_level" /\ result.score \in 0..5) =>
          /\ LabelBucket(result.out) = Bucket(result.score)
          /\ LabelBucket(result.badge) = Bucket(result.score)
    /\ (op = "draw_risk_bar_pdf" /\ result.score \in 0..5) =>
          \A i \in 0..4 :
              i < result.score => LabelBucket(result.out[i]) = Bucket(result.score)
    /\ (op = "get_risk_summary" /\ ScoresWithin(risk, 0, 5)) =>
          result.ok /\ SummaryBucket(result.val) = Bucket(DimMax(risk))

\* C9 amended: for every score of 1..5 all components agree on the bucket;
\* score 0 is LOW for get_risk_level, get_risk_badge_class and the dashboard
\* grouping, while get_risk_level_description labels it NO INDICATORS.
C9_BucketingAgreesFrom1 ==
    /\ (op = "get_risk_level_description" /\ result.score \in 1..5) =>
          LabelBucket(result.out) = Bucket(result.score)
    /\ (op = "get_risk_level_description" /\ result.score = 0) =>
          result.out = "NO INDICATORS"
    /\ (op = "get_risk_level" /\ result.score \in 0..5) =>
          /\ LabelBucket(result.out) = Bucket(result.score)
          /\ LabelBucket(result.badge) = Bucket(result.score)
    /\ (op = "draw_risk_bar_pdf" /\ result.score \in 0..5) =>
          \A i \in 0..4 :
              /\ i < result.score =>
                    LabelBucket(result.out[i]) = Bucket(result.score)
              /\ i >= result.score => result.out[i] = "#e5e7eb"
    /\ (op = "get_risk_summary" /\ ScoresWithin(risk, 0, 5)) =>
          result.ok /\ SummaryBucket(result.val) = Bucket(DimMax(risk))

C9_Witness ==
    /\ op = "get_risk_level_description"
    /\ result.score = 0
    /\ result.out = "NO INDICATORS"
    /\ get_risk_level(result.score) = "LOW"

\* C10: with a dimension score outside 0..5, calculate_risk_distribution
\* clamps the score to 0 or 5, counts the call in that bucket and returns.
C10_OutOfRangeIsClamped ==
    op = "calculate_risk_distribution" =>
        /\ result.ok
        /\ \A b \in 0..5 :
              result.val[b] =
                  Cardinality({i \in 1..Len(calls) :
                                  Clamp(DimMax(calls[i].risk)) = b})

FilledCells(cells) == Cardinality({i \in 0..4 : cells[i] # "#e5e7eb"})

DimIndex(d) == CHOOSE i \in 1..Len(risk_dimensions) : risk_dimensions[i] = d

\* C11: a dimension whose score is out of range is drawn with exactly
\* clamp(score, 0, 5) of the five cells filled, and the render flags the
\* score as invalid.
C11_OutOfRangeBarIsFlagged ==
    (op = "draw_risk_section" /\ result.ok) =>
        \A i \in 1..Len(result.val) :
            (result.val[i].kind = "risk_bar" /\ result.val[i].score \notin 0..5)
            => /\ FilledCells(result.val[i].cells) = Clamp(result.val[i].score)
               /\ \E j \in 1..Len(result.val) :
                     /\ result.val[j].kind = "invalid_score"
                     /\ result.val[j].key = result.val[i].key

\* the part of C11 the code satisfies: the number of filled cells
C11_FilledCellsAreClamped ==
    (op = "draw_risk_section" /\ result.ok) =>
        \A i \in 1..Len(result.val) :
            result.val[i].kind = "risk_bar" =>
                FilledCells(result.val[i].cells) = Clamp(result.val[i].score)

Offending(r) ==
    {d \in Dims : r[d].present /\ ~(r[d].has /\ r[d].score \in 0..5)}

\* C12: validate_risk_scores returns the empty list exactly when every
\* present dimension has an integer score in 0..5, and otherwise one
\* diagnostic per offending dimension, in the order suicide, homicide,
\* self_harm, harm_others.
C12_OneDiagnosticPerOffender ==
    op = "validate_risk_scores" =>
        /\ (result = <<>>) <=> (Offending(risk) = {})
        /\ Len(result) = Cardinality(Offending(risk))
        /\ {result[i].dimension : i \in 1..Len(result)} = Offending(risk)
        /\ \A i, j \in 1..Len(result) :
              i < j => DimIndex(result[i].dimension) < DimIndex(result[j].dimension)

C12_Witness ==
    /\ op = "validate_risk_scores"
    /\ risk["suicide"] = ScoredDim(6)
    /\ risk["homicide"] = ScoredDim(3)
    /\ risk["self_harm"] = AbsentDim
    /\ risk["harm_others"] = NoScoreDim
    /\ Len(result) = 2
    /\ result[1].dimension = "suicide"
    /\ result[2].dimension = "harm_others"

\* ---- the report
HasBlock(s, b) == \E i \in 1..Len(s) : s[i].block = b

ReportBlocks == <<"header", "call_info", "summary", "risk", "footer">>

\* C15: generate_pdf_report fails only when a timestamp of the call cannot be
\* parsed; a record that lacks a risk dimension, the risk mapping, the
\* summary, the caller profile or the analytics is rendered to the end.
C15_FailsOnlyOnTimestamp ==
    /\ pc = "failed" =>
          ~Parsable(pdf_call.started_at) \/ ~Parsable(pdf_call.ended_at)
    /\ (Parsable(pdf_call.started_at) /\ Parsable(pdf_call.ended_at)
        /\ pc = "done") =>
          \A b \in {ReportBlocks[i] : i \in 1..Len(ReportBlocks)} :
              HasBlock(out, b)

\* C16: a render that has failed has written nothing, and a document is
\* written only after all five section builders have completed, as the whole
\* story at once.
C16_NoOutputUnlessComplete ==
    /\ pc = "failed" => out = <<>>
    /\ out # <<>> =>
          /\ pc = "done"
          /\ out = story
          /\ \A b \in {ReportBlocks[i] : i \in 1..Len(ReportBlocks)} :
                 HasBlock(out, b)

C16_Witness ==
    /\ pc = "failed"
    /\ HasBlock(story, "header")
    /\ HasBlock(story, "call_info")
    /\ HasBlock(story, "summary")
    /\ out = <<>>

\* the blocks of a document in the order of their first item, the spacers
\* between the blocks left out
RECURSIVE BlocksFrom(_, _, _)
BlocksFrom(s, i, acc) ==
    IF i > Len(s) THEN acc
    ELSE IF s[i].block = "report"
            \/ (acc # <<>> /\ acc[Len(acc)] = s[i].block)
    THEN BlocksFrom(s, i + 1, acc)
    ELSE BlocksFrom(s, i + 1, Append(acc, s[i].block))

\* C17: a rendered report holds the title block, the call-information table,
\* the case summary, the risk assessment and the disclaimer footer, each
\* once and in this order.
C17_BlocksInFixedOrder ==
    pc = "done" => BlocksFrom(out, 1, <<>>) = ReportBlocks

C17_Witness ==
    /\ pc = "done"
    /\ Len(out) > Len(ReportBlocks)
    /\ out[Len(out)].kind = "disclaimer"

\* the sections of the summary handed to draw_summary_sections
GivenSections ==
    IF pdf_call.summary.has_sections THEN pdf_call.summary.sections
    ELSE NoSections

Filled(k) == GivenSections[k].has /\ GivenSections[k].val # ""

OfKind(s, kind) == SelectSeq(s, LAMBDA it : it.kind = kind)

\* C18: the sections emitted are the keys of the canonical order that are
\* present and non-empty, in that order, each title followed by the text of
\* its section unchanged.
C18_SectionsInCanonicalOrder ==
    HasBlock(story, "summary") =>
        LET expected == SelectSeq(section_order, Filled)
            titles == OfKind(story, "section_title")
            contents == OfKind(story, "section_content")
        IN  /\ Len(contents) = Len(expected)
            /\ Len(titles) = Len(expected)
            /\ \A i \in 1..Len(expected) :
                   /\ contents[i].key = expected[i]
                   /\ contents[i].text = GivenSections[expected[i]].val
                   /\ titles[i].key = expected[i]
            /\ \A i \in 1..Len(story) :
                   story[i].kind = "section_title" =>
                       /\ i < Len(story)
                       /\ story[i + 1].kind = "section_content"
                       /\ story[i + 1].key = story[i].key

C18_Witness ==
    /\ HasBlock(story, "summary")
    /\ ~GivenSections["caller_profile"].has
    /\ GivenSections["risk_factors"] = Given("")
    /\ Len(OfKind(story, "section_content")) = 3
    /\ OfKind(story, "section_content")[1].key = "presenting_problem"
    /\ OfKind(story, "section_content")[3].key = "safety_plan"

\* the value of a row of the call-information table
HasTable == \E i \in 1..Len(story) : story[i].kind = "table"

Cell(label) ==
    LET rows == story[CHOOSE i \in 1..Len(story) :
                         story[i].kind = "table"].rows
    IN  rows[CHOOSE j \in 1..Len(rows) : rows[j][1] = label][2]

ChannelAbsent == ~pdf_call.channel.has

AgeRangeAbsent ==
    ~pdf_call.caller_profile.present \/ ~pdf_call.caller_profile.age_range.has

GenderAbsent ==
    ~pdf_call.caller_profile.present \/ ~pdf_call.caller_profile.gender.has

HandledByAbsent ==
    ~pdf_call.analytics.present \/ ~pdf_call.analytics.handled_by.has

\* draw_call_info has raised: the header is built, the table is not
CallInfoFailed ==
    pc = "failed" /\ HasBlock(story, "header") /\ ~HasBlock(story, "call_info")

\* C19: in the call-information table each of channel, age range, gender and
\* handled-by reads "Not specified" when the call record lacks it, and its
\* absence never makes the table fail.
C19_AbsentIsNotSpecified ==
    /\ HasTable =>
          /\ ChannelAbsent => Cell("Channel:") = "Not specified"
          /\ AgeRangeAbsent => Cell("Age Range:") = "Not specified"
          /\ GenderAbsent => Cell("Gender:") = "Not specified"
          /\ HandledByAbsent => Cell("Handled By:") = "Not specified"
    /\ CallInfoFailed => ~Parsable(pdf_call.ended_at)

\* C19 as amended: an absent age range or gender reads "Not specified", an
\* absent channel or handled-by reads "Unknown"; none of them is rendered
\* empty and the table fails on an unparsable timestamp only.
C19_AbsentIsPlaceholder ==
    /\ HasTable =>
          /\ ChannelAbsent => Cell("Channel:") = "Unknown"
          /\ AgeRangeAbsent => Cell("Age Range:") = "Not specified"
          /\ GenderAbsent => Cell("Gender:") = "Not specified"
          /\ HandledByAbsent => Cell("Handled By:") = "Unknown"
    /\ CallInfoFailed => ~Parsable(pdf_call.ended_at)

C19_Witness ==
    /\ HasTable
    /\ ChannelAbsent
    /\ ~pdf_call.caller_profile.present
    /\ ~pdf_call.analytics.present
    /\ Cell("Gender:") = "Not specified"
    /\ Cell("Handled By:") = "Unknown"

\* "hh:mm AM" or "hh:mm PM" names the minute that holds second t of the day
NamesMinuteOf(text, t) ==
    \E h \in 1..12, half \in {0, 1} :
        LET m == (t \div 60) - (half * 12 + (h % 12)) * 60 IN
        /\ m \in 0..59
        /\ text = TwoDigits(h) \o ":" \o TwoDigits(m)
                  \o (IF half = 0 THEN " AM" ELSE " PM")

DurationOf(call) ==
    IF call.duration_sec.has THEN call.duration_sec.val ELSE 0

\* C20: the End Time of the call-information table is the start of the call
\* plus duration_sec seconds, whatever the stored ended_at.
C20_EndTimeIsStartPlusDuration ==
    HasTable =>
        NamesMinuteOf(Cell("End Time:"),
                      pdf_call.started_at.sec + DurationOf(pdf_call))

\* C20 as amended: the End Time is the stored ended_at on the 12-hour clock
\* (and the Start Time the stored started_at); duration_sec does not enter.
C20_EndTimeIsStoredEndedAt ==
    HasTable =>
        /\ NamesMinuteOf(Cell("End Time:"), pdf_call.ended_at.sec)
        /\ NamesMinuteOf(Cell("Start Time:"), pdf_call.started_at.sec)

C20_Witness ==
    /\ HasTable
    /\ pdf_call.started_at = Stamp(15, 43170)
    /\ pdf_call.duration_sec = Duration(45)
    /\ pdf_call.ended_at = Stamp(15, 46800)
    /\ Cell("End Time:") = "01:00 PM"

\* ---- the corpus
\* a call record with every field the list and the aggregation read
WellFormed(call) ==
    /\ call.call_id.has
    /\ Parsable(call.started_at)
    /\ call.summary.present /\ call.summary.has_sections
    /\ call.has_risk
    /\ \A d \in Dims : call.risk[d].present /\ call.risk[d].has

\* C13: in a batch over several calls a malformed call record fails alone:
\* the call list still shows every well-formed call and the risk
\* distribution still counts every well-formed call.
C13_MalformedCallFailsAlone ==
    /\ op = "main" =>
          \A i \in 1..Len(calls) :
              WellFormed(calls[i]) =>
                  \E j \in 1..Len(result.list.rows) :
                      result.list.rows[j].call_id = calls[i].call_id.val
    /\ op = "calculate_risk_distribution" =>
          /\ result.ok
          /\ SumBuckets(result.val)
                 >= Cardinality({i \in 1..Len(calls) : WellFormed(calls[i])})

InCorpus(call_id) ==
    \E i \in 1..Len(calls) : calls[i].call_id.val = call_id

\* C14: a request for a call_id the corpus does not hold is answered 404
\* "Call not found", never 500, and no report is generated for it; a request
\* for a call_id of the corpus returns the record (or the report of the
\* record) with that call_id; the call selected in the app is found.
C14_UnknownIdIsNotFound ==
    /\ (op \in {"get_call", "download_pdf"} /\ ~InCorpus(request)) =>
          /\ result.status = 404
          /\ result.detail = "Call not found"
          /\ ~result.generated
          /\ result.content = ""
          /\ result.call = NoCall
    /\ (op = "get_call" /\ InCorpus(request)) =>
          /\ result.status = 200
          /\ result.call.call_id = Given(request)
          /\ \E i \in 1..Len(calls) : calls[i] = result.call
    /\ (op = "download_pdf" /\ InCorpus(request)) =>
          /\ result.generated
          /\ result.status # 404
          /\ result.status = 200 =>
                 \E i \in 1..Len(calls) :
                     /\ calls[i].call_id = Given(request)
                     /\ result.content = generate_call_report(calls[i]).val
    /\ (op = "main" /\ result.list.ok /\ session.selected_call_id.has) =>
          /\ result.detail.view = "detail"
          /\ result.detail.call_id = session.selected_call_id.val
          /\ InCorpus(result.detail.call_id)

C14_Witness ==
    /\ op = "download_pdf"
    /\ request = UnknownId
    /\ Len(calls) > 1
    /\ result.status = 404
    /\ ~result.generated

\* ---- the aggregate risk of a call
\* C30: for every risk mapping, also one that lacks a dimension, the highest
\* score of the call is the same value in get_highest_risk_score, in
\* calculate_risk_distribution, in the analytics endpoint and in the call
\* list, and none of the four fails.
C30_AggregateRiskAgrees ==
    op = "aggregate_risk" =>
        /\ result.distribution.ok
        /\ result.endpoint.ok
        /\ result.list.ok
        /\ result.highest \in DOMAIN result.distribution.val
        /\ result.distribution.val[result.highest] = 1
        /\ PyStr(result.highest) \in DOMAIN result.endpoint.val.risk_distribution
        /\ result.endpoint.val.risk_distribution[PyStr(result.highest)] = 1
        /\ result.list.val = result.highest
\* ------------------------------------------------ two sessions, one file
\* the handler of session s has read the file back
HasRead(s) == session[s].pc \in {"exists", "remove", "done"}

\* C21: two renders for calls with different call_ids work on different
\* files, neither finds its file missing, and each reads back exactly the
\* complete document of its own call, whatever the interleaving.
C21_DifferentCallsDoNotInterfere ==
    \A s \in Sessions : \A t \in Sessions \ {s} :
        session[s].call.call_id # session[t].call.call_id =>
            /\ (session[s].filename # "" /\ session[t].filename # "")
                   => session[s].filename # session[t].filename
            /\ session[s].error # "FileNotFoundError"
            /\ session[s].pc = "write"
                   => out[session[s].filename].inode = s
            /\ HasRead(s) =>
                   /\ session[s].complete
                   /\ session[s].data = ReportStory(session[s].call).val

C21_Witness ==
    /\ session[1].call.call_id # session[2].call.call_id
    /\ session[1].pc = "done" /\ session[2].pc = "done"
    /\ session[1].data # <<>> /\ session[2].data # <<>>
    /\ session[1].data # session[2].data

\* C22: when the handler of a session has finished, with or without an
\* error, no file written by it is left in the temporary directory.
C22_NoReportFileRemains ==
    \A s \in Sessions :
        session[s].pc \in {"done", "error"} =>
            ~(/\ out[session[s].filename].exists
              /\ out[session[s].filename].writer = s)

\* C25: two sessions rendering the same call on the same day each read back
\* the complete document and neither finds the file removed.
C25_SameCallSameDayComplete ==
    (/\ session[1].call = session[2].call
     /\ session[1].filename = session[2].filename)
        => \A s \in Sessions :
               /\ session[s].error # "FileNotFoundError"
               /\ HasRead(s) =>
                      /\ session[s].complete
                      /\ session[s].data = ReportStory(session[s].call).val

\* ------------------------------------------------------- the PDF endpoint
\* C24: do_GET sends exactly one response, whose first line is the status
\* 200 followed by the PDF headers and the report when the generation
\* succeeds, and the status 500 followed by the JSON error, with no status
\* 200 and no PDF header before it, when the generation fails.
C24_ExactlyOneResponse ==
    op = "do_GET" =>
        LET wire == result.wire
            status == {i \in DOMAIN wire :
                          wire[i] \in {"HTTP/1.0 200 OK",
                                       "HTTP/1.0 500 Internal Server Error"}}
        IN  /\ status = {1}
            /\ result.raised =>
                   /\ wire[1] = "HTTP/1.0 500 Internal Server Error"
                   /\ \A i \in DOMAIN wire :
                          wire[i] # "Content-type: application/pdf"
            /\ ~result.raised =>
                   /\ wire[1] = "HTTP/1.0 200 OK"
                   /\ wire[5] = "Content-type: application/pdf"

\* ------------------------------------------------------ the simplified app
\* the call_ids of a list of calls
IdsOf(cs) == {cs[i].call_id.val : i \in 1..Len(cs)}

\* C23: no step of the app (a run of main with has_red_alert, the list and
\* compute_analytics, a selection, a simulation with its pop from the queue)
\* changes calls_all: its length, its order and every record stay.
C23_CallsAllUnchanged ==
    [][session'.calls_all = session.calls_all]_vars

C23_Witness ==
    /\ Len(session.calls_all) = 4
    /\ session.pending_simulation_queue = <<>>
    /\ session.ui_phase = "complete"
    /\ session.selected_call_id = session.calls_all[1].call_id
    /\ result.total_calls = 4

\* C26: the visible call_ids and the call_ids of the queue are disjoint and
\* together they are the call_ids of calls_all.
C26_VisibleAndQueuePartition ==
    /\ session.visible_call_ids
           \cap IdsOf(session.pending_simulation_queue) = {}
    /\ session.visible_call_ids
           \cup IdsOf(session.pending_simulation_queue)
           = IdsOf(session.calls_all)

C26_Witness ==
    /\ Len(session.pending_simulation_queue) = 1
    /\ Cardinality(session.visible_call_ids) = 3
    /\ session.ui_phase = "complete"

\* C27: a simulation starts only with a call in the queue; it makes the
\* next call of the corpus, and no other, visible and selects it, and takes
\* one call off the queue. No step makes a visible call invisible. The queue
\* holds as many calls as are not visible, so that it is empty and every
\* call is visible after len(calls_all) - 2 simulations; pressing the
\* button then changes nothing of the session.
C27_SimulateRevealsNext ==
    [][LET queue == session.pending_simulation_queue
           visible == session.visible_call_ids
           started == pc = "waiting" /\ pc' = "spinner_summary"
       IN  /\ visible \subseteq session'.visible_call_ids
           /\ started =>
                  /\ queue # <<>>
                  /\ LET next_call ==
                             session.calls_all[Cardinality(visible) + 1]
                     IN  /\ next_call.call_id.val \notin visible
                         /\ session'.visible_call_ids
                                = visible \cup {next_call.call_id.val}
                         /\ session'.selected_call_id = next_call.call_id
                  /\ Len(session'.pending_simulation_queue) = Len(queue) - 1
           /\ ~started =>
                  /\ session'.visible_call_ids = visible
                  /\ session'.pending_simulation_queue = queue
           /\ queue = <<>> =>
                  /\ visible = IdsOf(session.calls_all)
                  /\ ~started
                  /\ result'.warning => session' = session
           /\ Len(session'.pending_simulation_queue)
                  = Len(session'.calls_all)
                    - Cardinality(session'.visible_call_ids)
           /\ Cardinality(session'.visible_call_ids) >= 2
                  \/ session'.pending_simulation_queue = <<>>]_vars

C27_Witness ==
    /\ Len(session.calls_all) = 4
    /\ session.pending_simulation_queue = <<>>
    /\ session.visible_call_ids = IdsOf(session.calls_all)
    /\ session.selected_call_id = session.calls_all[4].call_id
    /\ result.warning

\* C28: the selection is None or the call_id of a visible call, which main
\* finds among the visible calls and shows; the analytics row counts as
\* many calls as there are visible call_ids.
C28_SelectionIsVisible ==
    /\ session.selected_call_id.has =>
           /\ session.selected_call_id.val \in session.visible_call_ids
           /\ FindFrom(VisibleCalls(session),
                       session.selected_call_id.val, 1).val # 0
    /\ (pc = "waiting" /\ result.button) =>
           /\ result.total_calls = Cardinality(session.visible_call_ids)
           /\ session.selected_call_id.has
                  => result.selected = session.selected_call_id.val

C28_Witness ==
    /\ pc = "waiting"
    /\ Len(session.calls_all) = 4
    /\ session.ui_phase = "complete"
    /\ result.total_calls = 3
    /\ result.selected = "CALL-002"

\* C29: the side panel shows the summary exactly in the phases summary_done,
\* risk_evaluating and complete, and the risk evaluation exactly in the
\* phase complete.
C29_PanelFollowsPhase ==
    LET panel == render_side_panel(session.ui_phase) IN
    /\ panel.summary = "summary"
           <=> session.ui_phase
                   \in {"summary_done", "risk_evaluating", "complete"}
    /\ panel.risk = "risk" <=> session.ui_phase = "complete"

\* the order of the phases: each step keeps the phase or moves it to the
\* next one, a new simulation starts from idle or complete, and no step
\* leads back to idle
PhaseMovesForward ==
    [][LET phases == <<"idle", "summary_generating", "summary_done",
                       "risk_evaluating", "complete">>
           at(p) == CHOOSE i \in 1..5 : phases[i] = p
           from == at(session.ui_phase)
           to == at(session'.ui_phase)
       IN  \/ to = from
           \/ to = from + 1
           \/ from = 5 /\ to = 2]_vars

====
